---- MODULE Spec2Model ----
(***************************************************************************)
(* Model of the measurement engine of net-speed-test (src/speed_tester.py, *)
(* src/models.py): the four probes PingTest, JitterTest, DownloadTest and  *)
(* UploadTest and the aggregator SpeedTester.run_all_tests.                *)
(*                                                                         *)
(* The HTTP transport (the requests library) is the environment: each      *)
(* request draws its outcome (a status code, requests.exceptions.Timeout   *)
(* or another requests.exceptions.RequestException) and its duration from  *)
(* small sets.  The wall clock time.time() is the variable clock, counted  *)
(* in ticks of one millisecond; it never runs backwards and advances only   *)
(* while the thread is blocked in the transport or in time.sleep.  The     *)
(* time a transfer takes is drawn once, when its request is made or        *)
(* answered.                                                               *)
(*                                                                         *)
(* Floating-point quotients (means, rates) are kept as exact fractions     *)
(* [num, den].  An Optional field is the empty set (None) or a singleton.  *)
(*                                                                         *)
(* Four specifications: Spec is one call of run_all_tests; SpecRuns calls  *)
(* it repeatedly on one SpeedTester; SpecReplay applies the loop and the   *)
(* statistics of one probe to samples given beforehand; SpecGenerator is   *)
(* the upload payload generator consumed to exhaustion.                    *)
(***************************************************************************)
EXTENDS Integers, Sequences, FiniteSets, TLC

(* ---- bounds of the model ---- *)
MaxCount == 2
MaxSizeMb == 1
MaxChunks == 2
MaxScript == 5
MaxPayloadMb == 4
MaxRuns == 2

(* ---- program constants ---- *)
TicksPerSecond == 1000
SleepTicks == 200
chunk_size == 8192
LargestSizeMb == 999

Counts == 1..MaxCount
SizesMb == 1..MaxSizeMb
(* durations of one transport call, in ticks: none measurable, or one tick *)
Deltas == {0, 1}
ChunkLens == {0, 1, chunk_size}

StatusCodes == {200, 201, 202, 203, 204, 404}
TransportExceptions == {"Timeout", "RequestException"}
(* What one call into the transport does: a response with a status code, or *)
(* requests.exceptions.Timeout, or another requests.exceptions.RequestException. *)
Responses == {[exc |-> "none", status_code |-> s] : s \in StatusCodes}
             \cup {[exc |-> e, status_code |-> 0] : e \in TransportExceptions}
SpeedTestErrors == {"NetworkConnectionError", "TestTimeoutError", "InvalidResponseError"}
Exception == SpeedTestErrors \cup TransportExceptions
Probes == {"ping", "jitter", "download", "upload"}

VARIABLES
    config,            \* SpeedTestConfig handed to SpeedTester.__init__
    pc,                \* position of the single thread inside run_all_tests
    clock,             \* time.time(), in ticks
    result,            \* the SpeedTestResult being assembled
    raised,            \* probe -> class of the exception its run_test raised, or "none"
    last_finish,       \* latest clock at which a run_test returned or raised, or -1
    trace,             \* <<probe, event>> in execution order
    http_log,          \* the requests handed to the transport, in order
    i,                 \* loop index of the sampling loops / chunks read so far
    ping_times,        \* local list ping_times of PingTest / JitterTest
    failed_pings,      \* local counter failed_pings
    start_time,        \* local start_time of DownloadTest / UploadTest
    downloaded_bytes,  \* local downloaded_bytes of DownloadTest
    remaining_bytes,   \* nonlocal remaining_bytes of UploadTest.data_generator
    yielded,           \* sizes of the chunks data_generator has yielded
    successes,         \* what the transport did in the sampling probe in progress or
                       \* just ended: the number of 200 answers
    wire,              \* what the transport did in the transfer probe in progress or
                       \* just ended: status, exception, duration
    runs,              \* calls of run_all_tests begun on this SpeedTester
    earlier_failed,    \* whether the result the call before this one returned held
                       \* failure messages
    script             \* the transport's answers written out in advance, where one
                       \* probe is replayed on given samples; empty otherwise

vars == <<config, pc, clock, result, raised, last_finish, trace, http_log, i,
          ping_times, failed_pings, start_time, downloaded_bytes,
          remaining_bytes, yielded, successes, wire, runs, earlier_failed, script>>

(* ---- Optional values and small helpers ---- *)
None == {}
Some(x) == {x}
The(s) == CHOOSE x \in s : TRUE

Min2(a, b) == IF a <= b THEN a ELSE b
Abs(x) == IF x < 0 THEN -x ELSE x

RECURSIVE SeqSum(_)
SeqSum(s) == IF s = <<>> THEN 0 ELSE Head(s) + SeqSum(Tail(s))

SeqMin(s) == CHOOSE x \in {s[k] : k \in 1..Len(s)} : \A y \in {s[k] : k \in 1..Len(s)} : x <= y
SeqMax(s) == CHOOSE x \in {s[k] : k \in 1..Len(s)} : \A y \in {s[k] : k \in 1..Len(s)} : x >= y

Frac(n, d) == [num |-> n, den |-> d]

(* ---- src/models.py ---- *)
SpeedTestConfig(pc_, js, dl, ul) ==
    [url |-> "https://server", download_size_mb |-> dl, upload_size_mb |-> ul,
     ping_count |-> pc_, jitter_samples |-> js, timeout_seconds |-> 30]

SpeedTestResult(now) ==
    [ping |-> None, jitter |-> None, download |-> None, upload |-> None,
     errors |-> <<>>, timestamp |-> now]

(* What run_test gives its caller: a value or a raised exception. *)
Return(v) == [ok |-> TRUE, value |-> Some(v), exc |-> "none", msg |-> ""]
Raise(e, m) == [ok |-> FALSE, value |-> None, exc |-> e, msg |-> m]

(* ---- requests as handed to the transport: method, URL and its query string, ---- *)
(* ---- headers, the names of the params and the timeout                       ---- *)
PingRequestShape(cfg) ==
    [method |-> "GET", url |-> cfg.url, query |-> {},
     headers |-> {<<"Cache-Control", "no-cache">>},
     params |-> {"_"}, timeout |-> cfg.timeout_seconds]

JitterRequestShape(cfg) ==
    [method |-> "GET", url |-> cfg.url, query |-> {},
     headers |-> {<<"Cache-Control", "no-cache">>},
     params |-> {"_"}, timeout |-> cfg.timeout_seconds]

(* a download request that asks for decimal megabytes *)
DownloadRequestShapeDecimal(cfg) ==
    [method |-> "GET", url |-> cfg.url,
     query |-> {<<"bytes", cfg.download_size_mb * 1000 * 1000>>},
     headers |-> {<<"Cache-Control", "no-cache">>},
     params |-> {}, timeout |-> cfg.timeout_seconds]

(* url = f"{self.config.url}?bytes={size_bytes}" and requests.get(url, ...) *)
DownloadRequestShape(cfg) ==
    [method |-> "GET", url |-> cfg.url,
     query |-> {<<"bytes", cfg.download_size_mb * 1024 * 1024>>},
     headers |-> {<<"Cache-Control", "no-cache">>},
     params |-> {}, timeout |-> cfg.timeout_seconds]

UploadRequestShape(cfg) ==
    [method |-> "POST", url |-> cfg.url, query |-> {},
     headers |-> {<<"Content-Type", "application/octet-stream">>,
                  <<"Cache-Control", "no-cache">>},
     params |-> {}, timeout |-> cfg.timeout_seconds]

(* the transport's side of a transfer: the answer's status (0: none), the exception *)
(* raised ("none": none) and where, whether body bytes had been counted by then,  *)
(* and the ticks between the probe's two clock readings                            *)
NoTransfer == [status_code |-> 0, exc |-> "none", at |-> "", partial |-> FALSE, duration |-> 0]
Transfer(status_code, exc, at, partial, duration) ==
    [status_code |-> status_code, exc |-> exc, at |-> at, partial |-> partial,
     duration |-> duration]
Is200(resp) == resp.exc = "none" /\ resp.status_code = 200

Init ==
    /\ config \in {SpeedTestConfig(a, b, c, d) :
                     a \in Counts, b \in Counts, c \in SizesMb, d \in SizesMb}
    /\ pc = "idle"
    /\ clock = 0
    /\ result = SpeedTestResult(0)
    /\ raised = [p \in Probes |-> "none"]
    /\ last_finish = -1
    /\ trace = <<>>
    /\ http_log = <<>>
    /\ i = 0
    /\ ping_times = <<>>
    /\ failed_pings = 0
    /\ start_time = 0
    /\ downloaded_bytes = 0
    /\ remaining_bytes = 0
    /\ yielded = <<>>
    /\ successes = 0
    /\ wire = NoTransfer
    /\ runs = 0
    /\ earlier_failed = FALSE
    /\ script = <<>>

(* a result whose errors list is the one object every result shares *)
NewResultSharingErrors(earlier, now) == [SpeedTestResult(now) EXCEPT !.errors = earlier.errors]

(* result = SpeedTestResult(): every field takes its default, errors a list of *)
(* its own (default_factory=list) and timestamp time.time(); nothing is taken  *)
(* from the result of an earlier call                                          *)
NewResult(earlier, now) == SpeedTestResult(now)

run_all_tests_begin ==
    /\ pc = "idle"
    /\ result' = NewResult(result, clock)
    /\ runs' = runs + 1
    /\ pc' = "ping"
    /\ UNCHANGED <<script, earlier_failed, config, clock, raised, last_finish, trace, http_log, i, ping_times,
                   failed_pings, start_time, downloaded_bytes, remaining_bytes, yielded,
                   successes, wire>>

(* ---- the aggregator's try/except around each probe (run_all_tests) ---- *)

(* a handler that names one class only, where the code names Exception *)
CaughtConnectivityOnly(e) == e = "NetworkConnectionError"

(* except Exception as e *)
Caught(e) == e \in Exception

(* f"<Probe> test error: {str(e)}" *)
ErrorPrefix(p) ==
    CASE p = "ping" -> "Ping test error: "
      [] p = "jitter" -> "Jitter test error: "
      [] p = "download" -> "Download test error: "
      [] p = "upload" -> "Upload test error: "

(* a handler that logs the failure and appends nothing *)
StoreWithoutMessage(res, p, out) ==
    IF out.ok THEN [res EXCEPT ![p] = out.value] ELSE res

(* result.<p> = self.run_<p>_test()  /  result.errors.append(...) *)
Store(res, p, out) ==
    IF out.ok
    THEN [res EXCEPT ![p] = out.value]
    ELSE [res EXCEPT !.errors = Append(@, [prefix |-> ErrorPrefix(p), detail |-> out.msg])]

(* the download block placed before the jitter block *)
NextStepDownloadFirst(p) ==
    CASE p = "ping" -> "download"
      [] p = "download" -> "jitter"
      [] p = "jitter" -> "upload"
      [] p = "upload" -> "stamp"

(* the statement that follows the try/except of probe p *)
NextStep(p) ==
    CASE p = "ping" -> "jitter"
      [] p = "jitter" -> "download"
      [] p = "download" -> "upload"
      [] p = "upload" -> "stamp"

(* run_test of probe p ends with out at time now; control is back in run_all_tests *)
Settle(p, out, now, tr) ==
    /\ raised' = [raised EXCEPT ![p] = out.exc]
    /\ last_finish' = IF now > last_finish THEN now ELSE last_finish
    /\ trace' = Append(tr, <<p, "finish">>)
    /\ IF out.ok \/ Caught(out.exc)
       THEN /\ result' = Store(result, p, out)
            /\ pc' = NextStep(p)
       ELSE /\ result' = result
            /\ pc' = "raised"

(* ---- PingTest.run_test ---- *)

(* a delay after every attempt, the last one too *)
DelayAfterEveryAttempt(k, count) == k < count

(* if i < self.config.ping_count - 1: time.sleep(0.2); the same test on *)
(* jitter_samples in JitterTest                                         *)
DelayFollows(k, count) == k < count - 1

(* (end_time - start_time) * 1000, the clock read in seconds *)
PingMs(start, end) == ((end - start) * 1000) \div TicksPerSecond

(* one iteration's bookkeeping: the if/else on the status and the two except clauses *)
PingSample(resp, times, failed, rtt) ==
    IF resp.exc = "none"
    THEN IF resp.status_code = 200
         THEN [times |-> Append(times, rtt), failed |-> failed]
         ELSE [times |-> times, failed |-> failed + 1]
    ELSE IF resp.exc = "Timeout"
         THEN [times |-> times, failed |-> failed + 1]
         ELSE [times |-> times, failed |-> failed + 1]

(* a mean taken over the attempts instead of the successful samples *)
PingStatsMeanOverAttempts(times, failed, count) ==
    IF times # <<>>
    THEN Return([min_ms |-> SeqMin(times),
                 max_ms |-> SeqMax(times),
                 avg_ms |-> Frac(SeqSum(times), count),
                 samples |-> Len(times),
                 failed |-> failed,
                 success_rate_percent |-> Frac(Len(times) * 100, count)])
    ELSE Raise("NetworkConnectionError", "All ping requests failed")

(* a probe that gives up as soon as one sample failed *)
PingStatsAllOrNothing(times, failed, count) ==
    IF times # <<>> /\ failed = 0
    THEN Return([min_ms |-> SeqMin(times),
                 max_ms |-> SeqMax(times),
                 avg_ms |-> Frac(SeqSum(times), Len(times)),
                 samples |-> Len(times),
                 failed |-> failed,
                 success_rate_percent |-> Frac(Len(times) * 100, count)])
    ELSE Raise("NetworkConnectionError", "All ping requests failed")

(* the statistics after the loop, or NetworkConnectionError *)
PingStats(times, failed, count) ==
    IF times # <<>>
    THEN Return([min_ms |-> SeqMin(times),
                 max_ms |-> SeqMax(times),
                 avg_ms |-> Frac(SeqSum(times), Len(times)),
                 samples |-> Len(times),
                 failed |-> failed,
                 success_rate_percent |-> Frac(Len(times) * 100, count)])
    ELSE Raise("NetworkConnectionError", "All ping requests failed")

PingTest_start ==
    /\ pc = "ping"
    /\ ping_times' = <<>>
    /\ failed_pings' = 0
    /\ i' = 0
    /\ successes' = 0
    /\ trace' = Append(trace, <<"ping", "start">>)
    /\ pc' = "ping_req"
    /\ UNCHANGED <<script, runs, earlier_failed, config, clock, result, raised, last_finish, http_log, start_time,
                   downloaded_bytes, remaining_bytes, yielded, wire>>

(* one pass of the for loop up to the delay: the request and its bookkeeping *)
PingTest_request ==
    /\ pc = "ping_req"
    /\ i < config.ping_count
    /\ \E resp \in Responses, d \in Deltas :
         LET s == PingSample(resp, ping_times, failed_pings, PingMs(clock, clock + d))
         IN /\ clock' = clock + d
            /\ ping_times' = s.times
            /\ failed_pings' = s.failed
            /\ successes' = successes + (IF Is200(resp) THEN 1 ELSE 0)
    /\ http_log' = Append(http_log, [probe |-> "ping", req |-> PingRequestShape(config)])
    /\ trace' = Append(trace, <<"ping", "request">>)
    /\ IF DelayFollows(i, config.ping_count)
       THEN pc' = "ping_sleep" /\ i' = i
       ELSE pc' = "ping_stats" /\ i' = i + 1
    /\ UNCHANGED <<script, runs, earlier_failed, config, result, raised, last_finish, start_time, downloaded_bytes,
                   remaining_bytes, yielded, wire>>

(* time.sleep(0.2), then the for statement takes the next i or ends the loop *)
PingTest_sleep ==
    /\ pc = "ping_sleep"
    /\ clock' = clock + SleepTicks
    /\ i' = i + 1
    /\ trace' = Append(trace, <<"ping", "sleep">>)
    /\ pc' = IF i + 1 < config.ping_count THEN "ping_req" ELSE "ping_stats"
    /\ UNCHANGED <<script, runs, earlier_failed, config, result, raised, last_finish, http_log, ping_times, failed_pings,
                   start_time, downloaded_bytes, remaining_bytes, yielded, successes, wire>>

(* the loop is over: the statistics or the exception, handed to run_all_tests; *)
(* the locals of run_test are gone                                             *)
PingTest_return ==
    /\ pc = "ping_stats"
    /\ Settle("ping", PingStats(ping_times, failed_pings, config.ping_count), clock, trace)
    /\ ping_times' = <<>> /\ failed_pings' = 0 /\ i' = 0
    /\ UNCHANGED <<script, runs, earlier_failed, config, clock, http_log, start_time, downloaded_bytes,
                   remaining_bytes, yielded, successes, wire>>

(* ---- JitterTest.run_test ---- *)

(* a loop whose except clause for Timeout forgets failed_pings += 1 *)
JitterSampleTimeoutUncounted(resp, times, failed, rtt) ==
    IF resp.exc = "none"
    THEN IF resp.status_code = 200
         THEN [times |-> Append(times, rtt), failed |-> failed]
         ELSE [times |-> times, failed |-> failed + 1]
    ELSE IF resp.exc = "Timeout"
         THEN [times |-> times, failed |-> failed]
         ELSE [times |-> times, failed |-> failed + 1]

(* one iteration's bookkeeping: the if/else on the status and the two except clauses *)
JitterSample(resp, times, failed, rtt) ==
    IF resp.exc = "none"
    THEN IF resp.status_code = 200
         THEN [times |-> Append(times, rtt), failed |-> failed]
         ELSE [times |-> times, failed |-> failed + 1]
    ELSE IF resp.exc = "Timeout"
         THEN [times |-> times, failed |-> failed + 1]
         ELSE [times |-> times, failed |-> failed + 1]

(* differences taken against the first sample instead of the previous one *)
DifferencesFromFirst(times) == [k \in 1..(Len(times) - 1) |-> Abs(times[k + 1] - times[1])]

(* [abs(ping_times[i] - ping_times[i - 1]) for i in range(1, len(ping_times))] *)
Differences(times) == [k \in 1..(Len(times) - 1) |-> Abs(times[k + 1] - times[k])]

(* statistics.stdev(differences) if len(differences) > 1 else 0, kept as the *)
(* sample variance  sum((x - mean)^2) / (n - 1)  =  (n*sum(x^2) - sum(x)^2) / (n*(n-1)) *)
StdDevSquared(diffs) ==
    IF Len(diffs) > 1
    THEN Frac(Len(diffs) * SeqSum([k \in 1..Len(diffs) |-> diffs[k] * diffs[k]])
                - SeqSum(diffs) * SeqSum(diffs),
              Len(diffs) * (Len(diffs) - 1))
    ELSE Frac(0, 1)

(* a threshold of one successful sample instead of two *)
JitterStatsFromOne(times, failed, count) ==
    IF Len(times) >= 1
    THEN LET differences == Differences(times)
         IN Return([avg_jitter_ms |-> Frac(SeqSum(differences), Len(differences)),
                    min_jitter_ms |-> 0,
                    max_jitter_ms |-> 0,
                    std_dev_sq |-> StdDevSquared(differences),
                    samples |-> Len(times),
                    failed |-> failed,
                    success_rate_percent |-> Frac(Len(times) * 100, count)])
    ELSE Raise("NetworkConnectionError",
               "Not enough successful jitter samples to calculate result")

(* the differences, the statistics over them and the rate, or NetworkConnectionError *)
JitterStats(times, failed, count) ==
    IF Len(times) >= 2
    THEN LET differences == Differences(times)
         IN Return([avg_jitter_ms |-> Frac(SeqSum(differences), Len(differences)),
                    min_jitter_ms |-> SeqMin(differences),
                    max_jitter_ms |-> SeqMax(differences),
                    std_dev_sq |-> StdDevSquared(differences),
                    samples |-> Len(times),
                    failed |-> failed,
                    success_rate_percent |-> Frac(Len(times) * 100, count)])
    ELSE Raise("NetworkConnectionError",
               "Not enough successful jitter samples to calculate result")

JitterTest_start ==
    /\ pc = "jitter"
    /\ ping_times' = <<>>
    /\ failed_pings' = 0
    /\ i' = 0
    /\ successes' = 0
    /\ trace' = Append(trace, <<"jitter", "start">>)
    /\ pc' = "jitter_req"
    /\ UNCHANGED <<script, runs, earlier_failed, config, clock, result, raised, last_finish, http_log, start_time,
                   downloaded_bytes, remaining_bytes, yielded, wire>>

(* one pass of the for loop up to the delay: the request and its bookkeeping *)
JitterTest_request ==
    /\ pc = "jitter_req"
    /\ i < config.jitter_samples
    /\ \E resp \in Responses, d \in Deltas :
         LET s == JitterSample(resp, ping_times, failed_pings, PingMs(clock, clock + d))
         IN /\ clock' = clock + d
            /\ ping_times' = s.times
            /\ failed_pings' = s.failed
            /\ successes' = successes + (IF Is200(resp) THEN 1 ELSE 0)
    /\ http_log' = Append(http_log, [probe |-> "jitter", req |-> JitterRequestShape(config)])
    /\ trace' = Append(trace, <<"jitter", "request">>)
    /\ IF DelayFollows(i, config.jitter_samples)
       THEN pc' = "jitter_sleep" /\ i' = i
       ELSE pc' = "jitter_stats" /\ i' = i + 1
    /\ UNCHANGED <<script, runs, earlier_failed, config, result, raised, last_finish, start_time, downloaded_bytes,
                   remaining_bytes, yielded, wire>>

(* time.sleep(0.2), then the for statement takes the next i or ends the loop *)
JitterTest_sleep ==
    /\ pc = "jitter_sleep"
    /\ clock' = clock + SleepTicks
    /\ i' = i + 1
    /\ trace' = Append(trace, <<"jitter", "sleep">>)
    /\ pc' = IF i + 1 < config.jitter_samples THEN "jitter_req" ELSE "jitter_stats"
    /\ UNCHANGED <<script, runs, earlier_failed, config, result, raised, last_finish, http_log, ping_times, failed_pings,
                   start_time, downloaded_bytes, remaining_bytes, yielded, successes, wire>>

(* the loop is over: the statistics or the exception, handed to run_all_tests; *)
(* the locals of run_test are gone                                             *)
JitterTest_return ==
    /\ pc = "jitter_stats"
    /\ Settle("jitter", JitterStats(ping_times, failed_pings, config.jitter_samples), clock, trace)
    /\ ping_times' = <<>> /\ failed_pings' = 0 /\ i' = 0
    /\ UNCHANGED <<script, runs, earlier_failed, config, clock, http_log, start_time, downloaded_bytes,
                   remaining_bytes, yielded, successes, wire>>

(* ---- DownloadTest.run_test ---- *)

(* if response.status_code != 200: raise InvalidResponseError *)
DownloadStatusOk(status_code) == status_code = 200

(* except clauses that fold a timeout into the connectivity failure *)
DownloadExceptNoTimeout(e) ==
    IF e \in {"Timeout", "RequestException"}
    THEN Raise("NetworkConnectionError", "Download test failed: ")
    ELSE Raise(e, "Download test failed with status code: ")

(* the except clauses of the try block: what leaves run_test when e is raised inside it *)
DownloadExcept(e) ==
    IF e = "Timeout"
    THEN Raise("TestTimeoutError", "Download test timed out")
    ELSE IF e = "RequestException"
         THEN Raise("NetworkConnectionError", "Download test failed: ")
         ELSE Raise(e, "Download test failed with status code: ")

(* if chunk: downloaded_bytes += len(chunk) *)
CountChunk(bytes, len) == IF len # 0 THEN bytes + len ELSE bytes

(* a result that reports the size asked for as the bytes transferred *)
DownloadStatsRequestedBytes(bytes, start, end, cfg) ==
    LET duration == end - start
        size_bytes == cfg.download_size_mb * 1024 * 1024
    IN IF duration > 0
       THEN Return([speed_mbps |-> Frac(size_bytes * 8, duration * (1000000 \div TicksPerSecond)),
                    bytes_transferred |-> size_bytes,
                    time_seconds |-> Frac(duration, TicksPerSecond),
                    requested_size_mb |-> cfg.download_size_mb])
       ELSE Raise("InvalidResponseError", "Download completed too quickly to measure")

(* after the body: duration, speed and the DownloadResult, or InvalidResponseError *)
DownloadStats(bytes, start, end, cfg) ==
    LET duration == end - start
    IN IF duration > 0
       THEN Return([speed_mbps |-> Frac(bytes * 8, duration * (1000000 \div TicksPerSecond)),
                    bytes_transferred |-> bytes,
                    time_seconds |-> Frac(duration, TicksPerSecond),
                    requested_size_mb |-> cfg.download_size_mb])
       ELSE Raise("InvalidResponseError", "Download completed too quickly to measure")

(* run_test is left: its locals are gone *)
DownloadLeave ==
    /\ start_time' = 0
    /\ downloaded_bytes' = 0
    /\ i' = 0

(* size_bytes, url and start_time = time.time() *)
DownloadTest_start ==
    /\ pc = "download"
    /\ start_time' = clock
    /\ downloaded_bytes' = 0
    /\ i' = 0
    /\ wire' = NoTransfer
    /\ successes' = 0
    /\ trace' = Append(trace, <<"download", "start">>)
    /\ pc' = "dl_get"
    /\ UNCHANGED <<script, runs, earlier_failed, config, clock, result, raised, last_finish, http_log, ping_times,
                   failed_pings, remaining_bytes, yielded>>

(* requests.get(url, stream=True, ...) and the status check *)
DownloadTest_get ==
    /\ pc = "dl_get"
    /\ http_log' = Append(http_log, [probe |-> "download", req |-> DownloadRequestShape(config)])
    /\ \E resp \in Responses, d \in Deltas :
         /\ clock' = clock + d
         /\ wire' = Transfer(resp.status_code, resp.exc,
                              IF resp.exc = "none" THEN "" ELSE "request", FALSE,
                              clock + d - start_time)
         /\ IF resp.exc # "none"
            THEN /\ Settle("download", DownloadExcept(resp.exc), clock + d,
                           Append(trace, <<"download", "request">>))
                 /\ DownloadLeave
            ELSE IF ~DownloadStatusOk(resp.status_code)
                 THEN /\ Settle("download", DownloadExcept("InvalidResponseError"),
                                clock + d, Append(trace, <<"download", "request">>))
                      /\ DownloadLeave
                 ELSE /\ pc' = "dl_stream"
                      /\ trace' = Append(trace, <<"download", "request">>)
                      /\ UNCHANGED <<result, raised, last_finish, i, start_time,
                                     downloaded_bytes>>
    /\ UNCHANGED <<script, runs, earlier_failed, config, ping_times, failed_pings, remaining_bytes, yielded, successes>>

(* for chunk in response.iter_content(chunk_size=chunk_size): one chunk arrives *)
DownloadTest_chunk ==
    /\ pc = "dl_stream"
    /\ i < MaxChunks
    /\ \E len \in ChunkLens :
         downloaded_bytes' = CountChunk(downloaded_bytes, len)
    /\ i' = i + 1
    /\ UNCHANGED <<script, runs, earlier_failed, config, pc, clock, result, raised, last_finish, trace, http_log,
                   ping_times, failed_pings, start_time, remaining_bytes, yielded,
                   successes, wire>>

(* iter_content raises while the body is being read *)
DownloadTest_stream_error ==
    /\ pc = "dl_stream"
    /\ \E e \in TransportExceptions :
         /\ wire' = Transfer(wire.status_code, e, "body", downloaded_bytes > 0,
                              clock - start_time)
         /\ Settle("download", DownloadExcept(e), clock, trace)
    /\ DownloadLeave
    /\ UNCHANGED <<script, runs, earlier_failed, config, clock, http_log, ping_times, failed_pings, remaining_bytes,
                   yielded, successes>>

(* the body ended: end_time = time.time() and the result *)
DownloadTest_finish ==
    /\ pc = "dl_stream"
    /\ wire' = Transfer(wire.status_code, "none", "", downloaded_bytes > 0,
                         clock - start_time)
    /\ Settle("download", DownloadStats(downloaded_bytes, start_time, clock, config),
              clock, trace)
    /\ DownloadLeave
    /\ UNCHANGED <<script, runs, earlier_failed, config, clock, http_log, ping_times, failed_pings, remaining_bytes,
                   yielded, successes>>

(* ---- UploadTest.run_test ---- *)

(* size_bytes = self.config.upload_size_mb * 1024 * 1024 *)
UploadSizeBytes(cfg) == cfg.upload_size_mb * 1024 * 1024

(* a payload handed over in one piece *)
UploadChunkSizeWhole(size_bytes) == size_bytes

(* chunk_size = min(1024 * 1024, size_bytes) *)
UploadChunkSize(size_bytes) == Min2(1024 * 1024, size_bytes)

(* a check that lets every 2xx status pass *)
UploadStatusOkAny2xx(status_code) == status_code \in 200..299

(* if response.status_code not in (200, 201, 202, 204): raise InvalidResponseError *)
UploadStatusOk(status_code) == status_code \in {200, 201, 202, 204}

UploadExcept(e) ==
    IF e = "Timeout"
    THEN Raise("TestTimeoutError", "Upload test timed out")
    ELSE IF e = "RequestException"
         THEN Raise("NetworkConnectionError", "Upload test failed: ")
         ELSE Raise(e, "Upload test failed with status code: ")

(* a result that reports the payload in decimal megabytes *)
UploadStatsDecimalBytes(status_code, start, end, cfg) ==
    LET duration == end - start
        size_bytes == cfg.upload_size_mb * 1000 * 1000
    IN IF ~UploadStatusOk(status_code)
       THEN UploadExcept("InvalidResponseError")
       ELSE IF duration > 0
            THEN Return([speed_mbps |-> Frac(size_bytes * 8,
                                             duration * (1000000 \div TicksPerSecond)),
                         bytes_transferred |-> size_bytes,
                         time_seconds |-> Frac(duration, TicksPerSecond),
                         requested_size_mb |-> cfg.upload_size_mb])
            ELSE Raise("InvalidResponseError", "Upload completed too quickly to measure")

(* after the POST returned: status check, then duration, speed and the UploadResult *)
UploadStats(status_code, start, end, cfg) ==
    LET duration == end - start
        size_bytes == UploadSizeBytes(cfg)
    IN IF ~UploadStatusOk(status_code)
       THEN UploadExcept("InvalidResponseError")
       ELSE IF duration > 0
            THEN Return([speed_mbps |-> Frac(size_bytes * 8,
                                             duration * (1000000 \div TicksPerSecond)),
                         bytes_transferred |-> size_bytes,
                         time_seconds |-> Frac(duration, TicksPerSecond),
                         requested_size_mb |-> cfg.upload_size_mb])
            ELSE Raise("InvalidResponseError", "Upload completed too quickly to measure")

(* size_bytes, chunk_size, remaining_bytes, start_time and the call of session.post *)
UploadTest_start ==
    /\ pc = "upload"
    /\ remaining_bytes' = UploadSizeBytes(config)
    /\ yielded' = <<>>
    /\ start_time' = clock
    /\ wire' = NoTransfer
    /\ http_log' = Append(http_log, [probe |-> "upload", req |-> UploadRequestShape(config)])
    /\ trace' = Append(Append(trace, <<"upload", "start">>), <<"upload", "request">>)
    /\ pc' = "ul_post"
    /\ UNCHANGED <<script, runs, earlier_failed, config, clock, result, raised, last_finish, i, ping_times, failed_pings,
                   downloaded_bytes, successes>>

(* one pass of the while loop of data_generator, up to its yield *)
data_generator ==
    /\ pc = "ul_post"
    /\ remaining_bytes > 0
    /\ LET current_chunk_size ==
               Min2(UploadChunkSize(UploadSizeBytes(config)), remaining_bytes)
       IN /\ remaining_bytes' = remaining_bytes - current_chunk_size
          /\ yielded' = Append(yielded, current_chunk_size)
    /\ UNCHANGED <<script, runs, earlier_failed, config, pc, clock, result, raised, last_finish, trace, http_log, i,
                   ping_times, failed_pings, start_time, downloaded_bytes, successes, wire>>

(* run_test is left: its locals and the generator are gone *)
UploadLeave ==
    /\ start_time' = 0
    /\ remaining_bytes' = 0
    /\ yielded' = <<>>

(* session.post raises while the body is being sent or the response awaited *)
UploadTest_post_error ==
    /\ pc = "ul_post"
    /\ \E e \in TransportExceptions, d \in Deltas :
         /\ clock' = clock + d
         /\ wire' = Transfer(0, e, "request", yielded # <<>>, clock + d - start_time)
         /\ Settle("upload", UploadExcept(e), clock + d, trace)
    /\ UploadLeave
    /\ UNCHANGED <<script, runs, earlier_failed, config, http_log, i, ping_times, failed_pings, downloaded_bytes,
                   successes>>

(* session.post returns a response: end_time = time.time(), the checks and the result *)
UploadTest_response ==
    /\ pc = "ul_post"
    /\ \E status_code \in StatusCodes, d \in Deltas :
         /\ clock' = clock + d
         /\ wire' = Transfer(status_code, "none", "", remaining_bytes > 0,
                              clock + d - start_time)
         /\ Settle("upload", UploadStats(status_code, start_time, clock + d, config),
                   clock + d, trace)
    /\ UploadLeave
    /\ UNCHANGED <<script, runs, earlier_failed, config, http_log, i, ping_times, failed_pings, downloaded_bytes,
                   successes>>

(* ---- the end of run_all_tests ---- *)

(* a return that leaves the timestamp the result was created with *)
StampKeepsDefault(res, now) == res

(* result.timestamp = time.time() *)
Stamp(res, now) == [res EXCEPT !.timestamp = now]

run_all_tests_return ==
    /\ pc = "stamp"
    /\ result' = Stamp(result, clock)
    /\ wire' = NoTransfer
    /\ pc' = "done"
    /\ UNCHANGED <<script, runs, earlier_failed, config, clock, raised, last_finish, trace, http_log, i, ping_times,
                   failed_pings, start_time, downloaded_bytes, remaining_bytes, yielded,
                   successes>>

Next ==
    \/ run_all_tests_begin
    \/ PingTest_start
    \/ PingTest_request
    \/ PingTest_sleep
    \/ PingTest_return
    \/ JitterTest_start
    \/ JitterTest_request
    \/ JitterTest_sleep
    \/ JitterTest_return
    \/ DownloadTest_start
    \/ DownloadTest_get
    \/ DownloadTest_chunk
    \/ DownloadTest_stream_error
    \/ DownloadTest_finish
    \/ UploadTest_start
    \/ data_generator
    \/ UploadTest_post_error
    \/ UploadTest_response
    \/ run_all_tests_return

Spec == Init /\ [][Next]_vars

(* ======================================================================= *)
(* run_all_tests called again and again on one SpeedTester.  What is       *)
(* recorded about a call (raised, last_finish, trace, http_log) starts     *)
(* anew with every call.                                                   *)
(* ======================================================================= *)
InitRuns ==
    /\ Init
    /\ config = SpeedTestConfig(2, 2, 1, 1)

(* the caller has the result of the call before and calls run_all_tests again *)
run_all_tests_again ==
    /\ pc = "done"
    /\ runs < MaxRuns
    /\ result' = NewResult(result, clock)
    /\ earlier_failed' = (result.errors # <<>>)
    /\ runs' = runs + 1
    /\ raised' = [p \in Probes |-> "none"]
    /\ last_finish' = -1
    /\ trace' = <<>>
    /\ http_log' = <<>>
    /\ pc' = "ping"
    /\ UNCHANGED <<script, config, clock, i, ping_times, failed_pings, start_time,
                   downloaded_bytes, remaining_bytes, yielded, successes, wire>>

NextRuns ==
    \/ Next
    \/ run_all_tests_again

SpecRuns == InitRuns /\ [][NextRuns]_vars

(* ======================================================================= *)
(* One probe replayed on given samples: the transport's answers of the     *)
(* whole probe are fixed in script beforehand, a round-trip time in        *)
(* milliseconds with every answer, and the probe's loop and its statistics *)
(* are applied to them.  The locals are kept at the return statement.      *)
(* ======================================================================= *)
PingRtts == {10, 15, 20, 25, 30}
JitterRtts == {10, 13, 15}
ReplaySizesMb == {1, 10}
ReplayDurations == {0, 1, 2 * TicksPerSecond}

Answered(rtt) == [resp |-> [exc |-> "none", status_code |-> 200], rtt |-> rtt]
Unanswered(resp) == [resp |-> resp, rtt |-> 0]
PingAnswers ==
    {Answered(t) : t \in PingRtts}
    \cup {Unanswered([exc |-> "Timeout", status_code |-> 0])}
JitterAnswers ==
    {Answered(t) : t \in JitterRtts}
    \cup {Unanswered([exc |-> "Timeout", status_code |-> 0]),
          Unanswered([exc |-> "none", status_code |-> 404])}
Scripts(S, shortest) == UNION {[1..n -> S] : n \in shortest..MaxScript}

InitReplay ==
    /\ \/ /\ pc = "replay_ping"
          /\ script \in Scripts(PingAnswers, 1)
          /\ config = SpeedTestConfig(Len(script), 1, 1, 1)
          /\ clock = 0
       \/ /\ pc = "replay_jitter"
          /\ script \in Scripts(JitterAnswers, 1)
          /\ config = SpeedTestConfig(1, Len(script), 1, 1)
          /\ clock = 0
       \/ /\ pc = "replay_download"
          /\ script \in Scripts(ChunkLens, 0)
          /\ config \in {SpeedTestConfig(1, 1, dl, 1) : dl \in ReplaySizesMb}
          /\ clock \in ReplayDurations
    /\ result = SpeedTestResult(0)
    /\ raised = [p \in Probes |-> "none"]
    /\ last_finish = -1
    /\ trace = <<>>
    /\ http_log = <<>>
    /\ i = 0
    /\ ping_times = <<>>
    /\ failed_pings = 0
    /\ start_time = 0
    /\ downloaded_bytes = 0
    /\ remaining_bytes = 0
    /\ yielded = <<>>
    /\ successes = 0
    /\ wire = NoTransfer
    /\ runs = 0
    /\ earlier_failed = FALSE

(* the value or the exception of run_test, as its caller in run_all_tests keeps it *)
ReplaySettle(p, out) ==
    /\ raised' = [raised EXCEPT ![p] = out.exc]
    /\ result' = Store(result, p, out)

(* PingTest.run_test: one pass of the for loop on the next scripted answer *)
PingTest_replay_sample ==
    /\ pc = "replay_ping"
    /\ i < config.ping_count
    /\ LET s == PingSample(script[i + 1].resp, ping_times, failed_pings, script[i + 1].rtt)
       IN /\ ping_times' = s.times
          /\ failed_pings' = s.failed
    /\ i' = i + 1
    /\ UNCHANGED <<script, runs, earlier_failed, config, pc, clock, result, raised, last_finish, trace,
                   http_log, start_time, downloaded_bytes, remaining_bytes, yielded,
                   successes, wire>>

(* PingTest.run_test: the statistics after the loop *)
PingTest_replay_return ==
    /\ pc = "replay_ping"
    /\ i = config.ping_count
    /\ ReplaySettle("ping", PingStats(ping_times, failed_pings, config.ping_count))
    /\ pc' = "replayed_ping"
    /\ UNCHANGED <<script, runs, earlier_failed, config, clock, last_finish, trace, http_log, i, ping_times,
                   failed_pings, start_time, downloaded_bytes, remaining_bytes, yielded,
                   successes, wire>>

(* JitterTest.run_test: one pass of the for loop on the next scripted answer *)
JitterTest_replay_sample ==
    /\ pc = "replay_jitter"
    /\ i < config.jitter_samples
    /\ LET s == JitterSample(script[i + 1].resp, ping_times, failed_pings, script[i + 1].rtt)
       IN /\ ping_times' = s.times
          /\ failed_pings' = s.failed
    /\ i' = i + 1
    /\ UNCHANGED <<script, runs, earlier_failed, config, pc, clock, result, raised, last_finish, trace,
                   http_log, start_time, downloaded_bytes, remaining_bytes, yielded,
                   successes, wire>>

(* JitterTest.run_test: the differences and their statistics after the loop *)
JitterTest_replay_return ==
    /\ pc = "replay_jitter"
    /\ i = config.jitter_samples
    /\ ReplaySettle("jitter", JitterStats(ping_times, failed_pings, config.jitter_samples))
    /\ pc' = "replayed_jitter"
    /\ UNCHANGED <<script, runs, earlier_failed, config, clock, last_finish, trace, http_log, i, ping_times,
                   failed_pings, start_time, downloaded_bytes, remaining_bytes, yielded,
                   successes, wire>>

(* DownloadTest.run_test: the next scripted chunk comes out of iter_content *)
DownloadTest_replay_chunk ==
    /\ pc = "replay_download"
    /\ i < Len(script)
    /\ downloaded_bytes' = CountChunk(downloaded_bytes, script[i + 1])
    /\ i' = i + 1
    /\ UNCHANGED <<script, runs, earlier_failed, config, pc, clock, result, raised, last_finish, trace,
                   http_log, ping_times, failed_pings, start_time, remaining_bytes, yielded,
                   successes, wire>>

(* DownloadTest.run_test: the body ended; duration, speed and the DownloadResult *)
DownloadTest_replay_finish ==
    /\ pc = "replay_download"
    /\ i = Len(script)
    /\ ReplaySettle("download", DownloadStats(downloaded_bytes, start_time, clock, config))
    /\ pc' = "replayed_download"
    /\ UNCHANGED <<script, runs, earlier_failed, config, clock, last_finish, trace, http_log, i, ping_times,
                   failed_pings, start_time, downloaded_bytes, remaining_bytes, yielded,
                   successes, wire>>

NextReplay ==
    \/ PingTest_replay_sample
    \/ PingTest_replay_return
    \/ JitterTest_replay_sample
    \/ JitterTest_replay_return
    \/ DownloadTest_replay_chunk
    \/ DownloadTest_replay_finish

SpecReplay == InitReplay /\ [][NextReplay]_vars

(* ======================================================================= *)
(* The payload generator of UploadTest on its own: session.post has just   *)
(* been called and the transport takes chunk after chunk from              *)
(* data_generator until it is exhausted.                                   *)
(* ======================================================================= *)
PayloadSizesMb == (1..MaxPayloadMb) \cup {LargestSizeMb}

InitGenerator ==
    /\ config \in {SpeedTestConfig(1, 1, 1, ul) : ul \in PayloadSizesMb}
    /\ pc = "ul_post"
    /\ remaining_bytes = UploadSizeBytes(config)
    /\ yielded = <<>>
    /\ clock = 0
    /\ start_time = 0
    /\ result = SpeedTestResult(0)
    /\ raised = [p \in Probes |-> "none"]
    /\ last_finish = -1
    /\ trace = <<>>
    /\ http_log = <<>>
    /\ i = 0
    /\ ping_times = <<>>
    /\ failed_pings = 0
    /\ downloaded_bytes = 0
    /\ successes = 0
    /\ wire = NoTransfer
    /\ runs = 0
    /\ earlier_failed = FALSE
    /\ script = <<>>

NextGenerator == data_generator

(* the transport goes on asking for the next chunk as long as there is one *)
SpecGenerator == InitGenerator /\ [][NextGenerator]_vars /\ WF_vars(NextGenerator)

(* ======================================================================= *)
(* The claims                                                              *)
(* ======================================================================= *)

ProbeOrder == <<"ping", "jitter", "download", "upload">>
Rank(p) == CHOOSE k \in 1..4 : ProbeOrder[k] = p
Populated(res) == {p \in Probes : res[p] # None}
MessagesOf(res, p) == {k \in 1..Len(res.errors) : res.errors[k].prefix = ErrorPrefix(p)}
Failed(p) == raised[p] # "none"

(* C1: in the result run_all_tests returns, a probe's field is populated iff  *)
(* the failure list holds no message for that probe; a probe that raised      *)
(* contributes exactly one message naming it, one that returned contributes   *)
(* none, so populated fields + failure messages = 4.                          *)
C1_FieldIffNoMessage ==
    pc = "done" =>
      /\ \A p \in Probes :
            /\ (result[p] # None) <=> (MessagesOf(result, p) = {})
            /\ Failed(p) => result[p] = None /\ Cardinality(MessagesOf(result, p)) = 1
            /\ ~Failed(p) => result[p] # None /\ MessagesOf(result, p) = {}
      /\ Cardinality(Populated(result)) + Len(result.errors) = 4

C1_Witness ==
    /\ pc = "done"
    /\ Populated(result) = {"ping", "download"}
    /\ Len(result.errors) = 2

(* C2: run_all_tests never raises: every exception of a probe is caught and   *)
(* the run goes on to return; when all four probes fail, the returned result  *)
(* has its four fields unset, four failure messages and its timestamp set to  *)
(* the clock read at the end of the run.                                      *)
C2_NeverFails ==
    /\ pc # "raised"
    /\ pc # "done" => ENABLED Next
    /\ (pc = "done" /\ \A p \in Probes : Failed(p)) =>
          /\ Populated(result) = {}
          /\ Len(result.errors) = 4
          /\ result.timestamp = clock

C2_Witness ==
    /\ pc = "done"
    /\ raised["ping"] = "NetworkConnectionError"
    /\ raised["jitter"] = "NetworkConnectionError"
    /\ raised["download"] = "TestTimeoutError"
    /\ raised["upload"] = "InvalidResponseError"
    /\ result.timestamp > 0

IsLifecycle(e) == e[2] \in {"start", "finish"}
Lifecycle(tr) == SelectSeq(tr, IsLifecycle)
FullLifecycle ==
    << <<"ping", "start">>, <<"ping", "finish">>, <<"jitter", "start">>,
       <<"jitter", "finish">>, <<"download", "start">>, <<"download", "finish">>,
       <<"upload", "start">>, <<"upload", "finish">> >>
IsPrefix(a, b) == Len(a) <= Len(b) /\ a = SubSeq(b, 1, Len(a))

(* C3: the probes start in the order ping, jitter, download, upload, each     *)
(* only after the one before has finished, each exactly once; everything a    *)
(* probe does lies between its start and its finish; a failure of an earlier  *)
(* probe does not keep a later one from running; the failure messages are in  *)
(* the order of execution.                                                    *)
C3_SequentialOrder ==
    /\ IsPrefix(Lifecycle(trace), FullLifecycle)
    /\ pc = "done" => Lifecycle(trace) = FullLifecycle
    /\ \A k \in 1..Len(trace) :
          trace[k][2] # "start" => k > 1 /\ trace[k - 1][1] = trace[k][1]
                                        /\ trace[k - 1][2] # "finish"
    /\ \A a, b \in 1..Len(result.errors) :
          a < b => \E p, q \in Probes :
                     /\ result.errors[a].prefix = ErrorPrefix(p)
                     /\ result.errors[b].prefix = ErrorPrefix(q)
                     /\ Rank(p) < Rank(q)

C3_Witness ==
    /\ pc = "done"
    /\ Failed("ping") /\ Failed("download")
    /\ result.jitter # None /\ result.upload # None
    /\ result.errors[1].prefix = "Ping test error: "
    /\ result.errors[2].prefix = "Download test error: "

(* C4: the timestamp of the returned result is the clock read after all four  *)
(* probes have finished: it is the clock at the return and not earlier than   *)
(* the finish of any probe (the value given at creation is replaced).         *)
C4_TimestampAtCompletion ==
    pc = "done" =>
      /\ result.timestamp = clock
      /\ last_finish >= 0
      /\ result.timestamp >= last_finish

C4_Witness ==
    /\ pc = "done"
    /\ result.timestamp > 0
    /\ result.timestamp = last_finish

Requests(p) == Cardinality({k \in 1..Len(trace) : trace[k] = <<p, "request">>})

Accepted == {200, 201, 202, 204}

(* C8 as stated: the upload probe returns a result for every 2xx status with  *)
(* a positive duration and raises InvalidResponseError for a status only when *)
(* it is outside 200..299.                                                    *)
C8_Any2xxAccepted ==
    (pc = "stamp" /\ wire.exc = "none" /\ wire.duration > 0) =>
      /\ wire.status_code \in 200..299 => result.upload # None
      /\ raised["upload"] = "InvalidResponseError" => wire.status_code \notin 200..299

(* C8 amended: the upload probe returns a result, given a positive duration,  *)
(* exactly for the statuses 200, 201, 202 and 204; every other status, other  *)
(* 2xx statuses such as 203 included, raises InvalidResponseError.            *)
C8_ListedStatusesAccepted ==
    (pc = "stamp" /\ wire.exc = "none" /\ wire.duration > 0) =>
      /\ (result.upload # None) <=> (wire.status_code \in Accepted)
      /\ wire.status_code \notin Accepted => raised["upload"] = "InvalidResponseError"

C8_Witness ==
    /\ pc = "stamp"
    /\ wire.exc = "none" /\ wire.duration > 0
    /\ wire.status_code = 204
    /\ result.upload # None

NoCache == <<"Cache-Control", "no-cache">>
OctetStream == <<"Content-Type", "application/octet-stream">>
CacheBusted(req) == "_" \in req.params
AsksBytes(req) == <<"bytes", config.download_size_mb * 1024 * 1024>> \in req.query
LogOf(p) == {http_log[k].req : k \in {j \in 1..Len(http_log) : http_log[j].probe = p}}

(* C9 as stated: every GET of the latency, jitter and download probes carries *)
(* Cache-Control: no-cache and a cache-busting query parameter; the download  *)
(* request also carries bytes=<download_size_mb * 1024 * 1024>; the upload    *)
(* POST carries an octet-stream content type.                                 *)
C9_AllGetsCacheBusted ==
    /\ \A p \in {"ping", "jitter", "download"} : \A req \in LogOf(p) :
          req.method = "GET" /\ NoCache \in req.headers /\ CacheBusted(req)
    /\ \A req \in LogOf("download") : AsksBytes(req)
    /\ \A req \in LogOf("upload") : req.method = "POST" /\ OctetStream \in req.headers

(* C9 amended: every GET of the latency and jitter probes carries             *)
(* Cache-Control: no-cache and a cache-busting query parameter; the download  *)
(* GET carries Cache-Control: no-cache and bytes=<download_size_mb * 1024 *   *)
(* 1024> and no cache-busting parameter; the upload POST carries an           *)
(* octet-stream content type.                                                 *)
C9_RequestShapes ==
    /\ \A p \in {"ping", "jitter"} : \A req \in LogOf(p) :
          req.method = "GET" /\ NoCache \in req.headers /\ CacheBusted(req)
    /\ \A req \in LogOf("download") :
          /\ req.method = "GET" /\ NoCache \in req.headers
          /\ AsksBytes(req)
          /\ ~CacheBusted(req) /\ req.query = {<<"bytes", config.download_size_mb * 1024 * 1024>>}
    /\ \A req \in LogOf("upload") : req.method = "POST" /\ OctetStream \in req.headers

C9_Witness ==
    /\ pc = "done"
    /\ \A p \in Probes : LogOf(p) # {}

RateIsExact(r) ==
    /\ r.success_rate_percent.den > 0
    /\ r.success_rate_percent.num * (r.samples + r.failed)
         = 100 * r.samples * r.success_rate_percent.den

(* C10: in both sampling probes every attempt is counted once, as a sample    *)
(* (answered 200) or as failed, so a result has samples + failed = the        *)
(* configured count and success_rate_percent = 100 * samples / (samples +     *)
(* failed), the jitter rate too being taken over the attempts.                *)
C10_EveryAttemptCounted ==
    /\ pc \in {"ping_req", "ping_sleep", "ping_stats"} =>
         /\ Len(ping_times) + failed_pings = Requests("ping")
         /\ Len(ping_times) = successes
    /\ pc \in {"jitter_req", "jitter_sleep", "jitter_stats"} =>
         /\ Len(ping_times) + failed_pings = Requests("jitter")
         /\ Len(ping_times) = successes
    /\ result.ping # None =>
         /\ The(result.ping).samples + The(result.ping).failed = config.ping_count
         /\ RateIsExact(The(result.ping))
    /\ result.jitter # None =>
         /\ The(result.jitter).samples + The(result.jitter).failed = config.jitter_samples
         /\ RateIsExact(The(result.jitter))

C10_Witness ==
    /\ result.ping # None /\ The(result.ping).failed = 1 /\ The(result.ping).samples = 1
    /\ result.jitter # None /\ The(result.jitter).samples = 2

(* the round-trip times of the answers of a script that came back with 200, in *)
(* request order                                                              *)
Answered200(a) == Is200(a.resp)
RttsOf(answers) ==
    LET ok == SelectSeq(answers, Answered200)
    IN [k \in 1..Len(ok) |-> ok[k].rtt]
Values(s) == {s[k] : k \in 1..Len(s)}

(* C11: a latency result has min_ms <= avg_ms <= max_ms, its minimum, maximum *)
(* and mean taken over the round-trip times of the successful samples only;   *)
(* the samples 10, 20, 15, 25, 30 of five attempts give min 10, max 30, avg   *)
(* 20, samples 5, failed 0 and a success rate of 100.                         *)
C11_LatencyStatistics ==
    (pc = "replayed_ping" /\ result.ping # None) =>
      LET r == The(result.ping)
          rtts == RttsOf(script)
      IN /\ r.min_ms \in Values(rtts) /\ \A t \in Values(rtts) : r.min_ms <= t
         /\ r.max_ms \in Values(rtts) /\ \A t \in Values(rtts) : t <= r.max_ms
         /\ r.avg_ms.den = Len(rtts) /\ r.avg_ms.num = SeqSum(rtts)
         /\ r.min_ms * r.avg_ms.den <= r.avg_ms.num
         /\ r.avg_ms.num <= r.max_ms * r.avg_ms.den
         /\ r.samples = Len(rtts)
         /\ rtts = <<10, 20, 15, 25, 30>> /\ Len(script) = 5 =>
               /\ r.min_ms = 10 /\ r.max_ms = 30
               /\ r.avg_ms.num = 20 * r.avg_ms.den
               /\ r.samples = 5 /\ r.failed = 0
               /\ r.success_rate_percent.num = 100 * r.success_rate_percent.den

C11_Witness ==
    /\ pc = "replayed_ping"
    /\ script = <<Answered(10), Answered(20), Answered(15), Answered(25), Answered(30)>>
    /\ result.ping # None
    /\ The(result.ping).avg_ms = Frac(100, 5)

(* speed_mbps = bytes * 8 / time_seconds / 1,000,000, both quotients exact *)
SpeedIsExact(r, bytes) ==
    /\ r.time_seconds.num > 0 /\ r.time_seconds.den > 0
    /\ r.speed_mbps.num = bytes * 8
    /\ r.speed_mbps.den * r.time_seconds.den = r.time_seconds.num * 1000000

(* C12: a download result's bytes_transferred is the sum of the lengths of    *)
(* the chunks received, whatever size was asked for; requested_size_mb is the *)
(* configured download_size_mb; speed_mbps is bytes_transferred * 8 /         *)
(* time_seconds / 1,000,000.  Asked for 10 MB, 5 MiB received in 2 s give     *)
(* bytes_transferred 5 * 1024 * 1024 and requested_size_mb 10.                *)
C12_DownloadCountsReceived ==
    /\ (pc = "replayed_download" /\ result.download # None) =>
         LET r == The(result.download)
         IN /\ r.bytes_transferred = SeqSum(script)
            /\ r.requested_size_mb = config.download_size_mb
            /\ r.time_seconds.num * TicksPerSecond = (clock - start_time) * r.time_seconds.den
            /\ SpeedIsExact(r, SeqSum(script))
    /\ LET out == DownloadStats(5 * 1024 * 1024, 0, 2 * TicksPerSecond,
                                SpeedTestConfig(1, 1, 10, 1))
       IN /\ out.ok
          /\ The(out.value).bytes_transferred = 5 * 1024 * 1024
          /\ The(out.value).requested_size_mb = 10
          /\ The(out.value).time_seconds.num = 2 * The(out.value).time_seconds.den
          /\ SpeedIsExact(The(out.value), 5 * 1024 * 1024)

C12_Witness ==
    /\ pc = "replayed_download"
    /\ config.download_size_mb = 10
    /\ script = <<chunk_size, 0, 1>>
    /\ result.download # None
    /\ The(result.download).bytes_transferred = chunk_size + 1
    /\ The(result.download).requested_size_mb = 10

(* C13: an upload result's bytes_transferred is upload_size_mb * 1024 * 1024  *)
(* and its speed is computed from that size asked for, also when the response *)
(* came before the whole payload had been generated and sent.                 *)
C13_UploadReportsRequested ==
    result.upload # None =>
      LET r == The(result.upload)
      IN /\ r.bytes_transferred = config.upload_size_mb * 1024 * 1024
         /\ r.requested_size_mb = config.upload_size_mb
         /\ SpeedIsExact(r, config.upload_size_mb * 1024 * 1024)
         /\ pc = "stamp" =>
               r.time_seconds.num * TicksPerSecond = wire.duration * r.time_seconds.den

C13_Witness ==
    /\ pc = "stamp"
    /\ result.upload # None
    /\ wire.partial
    /\ The(result.upload).bytes_transferred = 1024 * 1024

(* the absolute differences between consecutive round-trip times, in order *)
ConsecutiveGaps(rtts) ==
    [k \in 1..(Len(rtts) - 1) |->
        IF rtts[k + 1] >= rtts[k] THEN rtts[k + 1] - rtts[k] ELSE rtts[k] - rtts[k + 1]]

(* C14: the jitter statistics are reductions of the list of absolute          *)
(* differences between consecutive successful samples in request order, a     *)
(* failed attempt between two successes being skipped: the list has           *)
(* samples - 1 entries, avg is their mean, min and max their least and        *)
(* greatest, min <= avg <= max, and with exactly two samples the standard     *)
(* deviation is 0; the samples 10, 15, 13 give the differences 5, 2, avg 3.5, *)
(* min 2 and max 5.                                                           *)
C14_JitterOverConsecutiveGaps ==
    (pc = "replayed_jitter" /\ result.jitter # None) =>
      LET r == The(result.jitter)
          rtts == RttsOf(script)
          gaps == ConsecutiveGaps(rtts)
      IN /\ r.samples = Len(rtts) /\ r.samples >= 2
         /\ Len(gaps) = r.samples - 1
         /\ r.avg_jitter_ms.den = Len(gaps) /\ r.avg_jitter_ms.num = SeqSum(gaps)
         /\ r.min_jitter_ms \in Values(gaps) /\ \A g \in Values(gaps) : r.min_jitter_ms <= g
         /\ r.max_jitter_ms \in Values(gaps) /\ \A g \in Values(gaps) : g <= r.max_jitter_ms
         /\ r.min_jitter_ms * r.avg_jitter_ms.den <= r.avg_jitter_ms.num
         /\ r.avg_jitter_ms.num <= r.max_jitter_ms * r.avg_jitter_ms.den
         /\ r.std_dev_sq.den > 0 /\ r.std_dev_sq.num >= 0
         /\ r.samples = 2 => r.std_dev_sq.num = 0
         /\ rtts = <<10, 15, 13>> =>
               /\ gaps = <<5, 2>>
               /\ 2 * r.avg_jitter_ms.num = 7 * r.avg_jitter_ms.den
               /\ r.min_jitter_ms = 2 /\ r.max_jitter_ms = 5

C14_Witness ==
    /\ pc = "replayed_jitter"
    /\ script = <<Answered(10), Unanswered([exc |-> "Timeout", status_code |-> 0]),
                  Answered(15), Answered(13)>>
    /\ result.jitter # None
    /\ The(result.jitter).avg_jitter_ms = Frac(7, 2)
    /\ The(result.jitter).failed = 1

(* the sum of s[lo..hi], by halving *)
RECURSIVE RangeSum(_, _, _)
RangeSum(s, lo, hi) ==
    IF lo > hi THEN 0
    ELSE IF lo = hi THEN s[lo]
    ELSE RangeSum(s, lo, (lo + hi) \div 2) + RangeSum(s, (lo + hi) \div 2 + 1, hi)
Total(s) == RangeSum(s, 1, Len(s))

(* the generator's bookkeeping while session.post consumes it *)
GeneratorAccounts ==
    pc = "ul_post" =>
      /\ Total(yielded) + remaining_bytes = config.upload_size_mb * 1024 * 1024
      /\ remaining_bytes >= 0
      /\ \A k \in 1..Len(yielded) : yielded[k] > 0 /\ yielded[k] <= 1048576
      /\ Len(yielded) <= config.upload_size_mb

(* C15: consumed to exhaustion, the upload payload generator terminates for   *)
(* every valid size; its chunks are non-empty and at most 1,048,576 bytes     *)
(* long and their lengths sum to upload_size_mb * 1024 * 1024; at every point *)
(* the bytes yielded plus the remaining counter equal that target and the     *)
(* counter is never negative.                                                 *)
C15_GeneratorExhausts ==
    /\ []GeneratorAccounts
    /\ (pc = "ul_post" /\ remaining_bytes > 0) ~>
         (remaining_bytes = 0 /\ Total(yielded) = config.upload_size_mb * 1024 * 1024)

C15_Witness ==
    /\ pc = "ul_post"
    /\ config.upload_size_mb = LargestSizeMb
    /\ remaining_bytes = 0
    /\ Len(yielded) = LargestSizeMb
    /\ yielded[LargestSizeMb] = 1048576

(* the requests and delays of a sampling probe, in execution order *)
SamplingEvents(p) ==
    LET OfLoop(ev) == ev[1] = p /\ ev[2] \in {"request", "sleep"}
        evs == SelectSeq(trace, OfLoop)
    IN [k \in 1..Len(evs) |-> evs[k][2]]
Attempts(p) == IF p = "ping" THEN config.ping_count ELSE config.jitter_samples

(* the positions of the thread in the loop of probe p, after the loop, and *)
(* where run_test of p has just returned or raised                         *)
InLoop(p) == IF p = "ping" THEN {"ping_req", "ping_sleep"} ELSE {"jitter_req", "jitter_sleep"}
AfterLoop(p) == IF p = "ping" THEN {"ping_stats", "jitter"} ELSE {"jitter_stats", "download"}

(* C16: in the latency and the jitter loop requests and delays alternate      *)
(* strictly, starting with a request: a delay follows every attempt but the   *)
(* last, whether the attempt succeeded or failed, so a loop of N attempts     *)
(* makes exactly N requests and N - 1 delays and ends on a request.  Looked   *)
(* at while the loop runs and when it has just ended.                         *)
C16_DelayBetweenAttempts ==
    \A p \in {"ping", "jitter"} :
      pc \in InLoop(p) \cup AfterLoop(p) =>
        LET evs == SamplingEvents(p)
        IN /\ \A k \in 1..Len(evs) : evs[k] = IF k % 2 = 1 THEN "request" ELSE "sleep"
           /\ Len(evs) <= 2 * Attempts(p) - 1
           /\ pc \in AfterLoop(p) => Len(evs) = 2 * Attempts(p) - 1
           /\ pc \in {"ping_sleep", "jitter_sleep"} =>
                 Len(evs) % 2 = 1 /\ Len(evs) < 2 * Attempts(p) - 1

C16_Witness ==
    /\ pc = "jitter"
    /\ config.ping_count = MaxCount
    /\ raised["ping"] = "NetworkConnectionError"
    /\ Len(SamplingEvents("ping")) = 2 * MaxCount - 1
    /\ SamplingEvents("ping")[2] = "sleep"

LoopOver(p) == \E k \in 1..Len(trace) : trace[k] = <<p, "finish">>

(* the result of the call in progress or just returned holds what the probes *)
(* of this call did and nothing else                                         *)
ReflectsThisCallOnly ==
    pc # "idle" =>
      /\ \A p \in Probes :
            IF LoopOver(p)
            THEN IF Failed(p)
                 THEN result[p] = None /\ Cardinality(MessagesOf(result, p)) = 1
                 ELSE result[p] # None /\ MessagesOf(result, p) = {}
            ELSE result[p] = None /\ MessagesOf(result, p) = {}
      /\ result.ping # None =>
            The(result.ping).samples + The(result.ping).failed = config.ping_count
      /\ result.jitter # None =>
            The(result.jitter).samples + The(result.jitter).failed = config.jitter_samples
      /\ pc = "done" => result.timestamp = clock

(* C17: nothing is shared between the probes or between successive calls:     *)
(* calling run_all_tests again and again on one SpeedTester never changes its *)
(* configuration, and every call assembles a result of its own whose fields   *)
(* and failure list hold the outcomes of that call's probes only.             *)
C17_RunsShareNothing ==
    /\ [][config' = config]_vars
    /\ []ReflectsThisCallOnly

C17_Witness ==
    /\ runs = MaxRuns
    /\ pc = "done"
    /\ earlier_failed
    /\ result.errors = <<>>
    /\ Populated(result) = Probes
====
